---- MODULE Spec2Model ----
(***************************************************************************)
(* Non-blocking connect of a unix stream socket inside a coroutine        *)
(* scheduler: src/io/sys/unix/net/unix_stream_connect.rs.                  *)
(*                                                                         *)
(* Processes:                                                              *)
(*   task      the coroutine that runs new / is_connected / done           *)
(*   sub       the worker thread running EventSource::subscribe after the  *)
(*             task has yielded (it can overlap the resumed task)          *)
(*   selector  the event-delivery thread (readiness events)                *)
(*   timer     the 10 s io timer armed by subscribe                        *)
(*   canceller an external cancel request on the task                      *)
(***************************************************************************)
EXTENDS Integers, Sequences, FiniteSets, TLC

\* Bounds of the model.
MaxConnects == 3
MaxEvents == 2

\* Duration::from_secs(10) handed to add_io_timer.
IoTimeoutSecs == 10

NoTimer == 0 - 1

\* What the OS can answer to connect(2).
Errnos == {"EINPROGRESS", "EALREADY", "EISCONN", "ECONNREFUSED", "EAGAIN"}
ConnectAnswers == {"OK"} \cup Errnos

VARIABLES
    taskPc,        \* position of the task
    newResult,     \* "none" | "Ok" | "Err": what new returned
    icResult,      \* "none" | "true" | "false" | errno: what is_connected returned last
    result,        \* "none" | "Ok" | errno | "TimedOut" | "Canceled": what done returned
    is_connected,  \* field UnixStreamConnect::is_connected
    sock,          \* "none" | "connect" | "stream" | "closed": who owns the socket
    nonblocking,   \* the socket is in non-blocking mode
    io_data,       \* "none" | "connect" | "stream" | "released": who owns the registration
    registered,    \* the descriptor is registered with the selector
    io_flag,       \* io_data.io_flag
    co,            \* io_data.co holds the handle of the waiting task
    timer,         \* seconds the io timer is armed for, NoTimer when none is armed
    runnable,      \* the task has been handed to the scheduler
    para,          \* error left for the task by the wakeup: "none" | "TimedOut" | "Canceled"
    tokens,        \* outstanding delay-drop tokens of can_drop
    subPc,         \* position of subscribe
    canceled,      \* the task's cancel flag
    cancel_io,     \* the cancel slot holds a back-reference to io_data
    cancelPc,      \* position of the canceller
    selPc,         \* position of the selector
    nEvents,       \* readiness events delivered so far
    hist,          \* answers to the connects re-issued by done
    suspends,      \* times the task was suspended
    resumes,       \* times the task was handed back to the scheduler
    subscribes,    \* times subscribe was entered
    setInWindow,   \* io_flag was set after the clearing store and before the recheck swap
    cycleEvt,      \* a readiness event set io_flag since the last recheck swap
    wokenBy,       \* who resumed the task last: "none" | "event" | "timer" | "cancel"
                   \* (the canceller) | "subscribe" (line 106) | "subscribe_cancel" (line 113)
    cancelBeforeSub, \* the cancellation had been requested (flag set, delivery tried)
                   \* when the task was suspended and subscribe entered
    icAnswer,      \* what the OS answered to the last connect of is_connected, "none" before
    icOk,          \* the OS answered success to some connect of is_connected
    resets         \* times can_drop.reset() was called

taskVars == <<taskPc, newResult, icResult, result, is_connected>>
resVars == <<sock, nonblocking, io_data, registered>>
ioVars == <<io_flag, co, timer>>
schedVars == <<runnable, para>>
cancelVars == <<canceled, cancel_io, cancelPc>>
selVars == <<selPc, nEvents>>
histVars == <<hist, suspends, resumes, subscribes, setInWindow, cycleEvt, wokenBy,
              cancelBeforeSub, icAnswer, icOk, resets>>

vars == <<taskVars, resVars, ioVars, schedVars, tokens, subPc, cancelVars, selVars, histVars>>

Init ==
    /\ taskPc = "new_addr"
    /\ newResult = "none"
    /\ icResult = "none"
    /\ result = "none"
    /\ is_connected = FALSE
    /\ sock = "none"
    /\ nonblocking = FALSE
    /\ io_data = "none"
    /\ registered = FALSE
    /\ io_flag = FALSE
    /\ co = FALSE
    /\ timer = NoTimer
    /\ runnable = FALSE
    /\ para = "none"
    /\ tokens = 0
    /\ subPc = "idle"
    /\ canceled = FALSE
    /\ cancel_io = FALSE
    /\ cancelPc = "idle"
    /\ selPc = "idle"
    /\ nEvents = 0
    /\ hist = <<>>
    /\ suspends = 0
    /\ resumes = 0
    /\ subscribes = 0
    /\ setInWindow = FALSE
    /\ cycleEvt = FALSE
    /\ wokenBy = "none"
    /\ cancelBeforeSub = FALSE
    /\ icAnswer = "none"
    /\ icOk = FALSE
    /\ resets = 0

(***************************************************************************)
(* UnixStreamConnect::new                                                  *)
(***************************************************************************)

\* SockAddr::unix(path)?
NewAddr ==
    /\ taskPc = "new_addr"
    /\ \E ok \in BOOLEAN :
          IF ok THEN taskPc' = "new_socket" /\ newResult' = newResult
                ELSE taskPc' = "new_failed" /\ newResult' = "Err"
    /\ UNCHANGED <<icResult, result, is_connected, resVars, ioVars, schedVars, tokens,
                   subPc, cancelVars, selVars, histVars>>

\* Socket::new(Domain::unix(), Type::stream(), None)?
NewSocket ==
    /\ taskPc = "new_socket"
    /\ \E ok \in BOOLEAN :
          IF ok THEN taskPc' = "new_nonblock" /\ newResult' = newResult /\ sock' = "connect"
                ELSE taskPc' = "new_failed" /\ newResult' = "Err" /\ sock' = sock
    /\ UNCHANGED <<icResult, result, is_connected, nonblocking, io_data, registered, ioVars,
                   schedVars, tokens, subPc, cancelVars, selVars, histVars>>

\* Mutant of NewNonblocking: the mode switch is skipped.
NewNonblocking_NoModeSwitch ==
    /\ taskPc = "new_nonblock"
    /\ \E ok \in BOOLEAN :
          IF ok THEN /\ taskPc' = "new_register"
                     /\ nonblocking' = nonblocking
                     /\ UNCHANGED <<newResult, sock>>
                ELSE /\ taskPc' = "new_failed"
                     /\ newResult' = "Err"
                     /\ sock' = "closed"
                     /\ nonblocking' = nonblocking
    /\ UNCHANGED <<icResult, result, is_connected, io_data, registered, ioVars,
                   schedVars, tokens, subPc, cancelVars, selVars, histVars>>

\* socket.set_nonblocking(true)?  On failure the local socket is dropped.
NewNonblocking ==
    /\ taskPc = "new_nonblock"
    /\ \E ok \in BOOLEAN :
          IF ok THEN /\ taskPc' = "new_register"
                     /\ nonblocking' = TRUE
                     /\ UNCHANGED <<newResult, sock>>
                ELSE /\ taskPc' = "new_failed"
                     /\ newResult' = "Err"
                     /\ sock' = "closed"
                     /\ nonblocking' = nonblocking
    /\ UNCHANGED <<icResult, result, is_connected, io_data, registered, ioVars,
                   schedVars, tokens, subPc, cancelVars, selVars, histVars>>

\* add_socket(&socket).map(|io| UnixStreamConnect { .. is_connected: false })
NewRegister ==
    /\ taskPc = "new_register"
    /\ \E ok \in BOOLEAN :
          IF ok THEN /\ taskPc' = "created"
                     /\ newResult' = "Ok"
                     /\ io_data' = "connect"
                     /\ registered' = TRUE
                     /\ sock' = sock
                ELSE /\ taskPc' = "new_failed"
                     /\ newResult' = "Err"
                     /\ sock' = "closed"
                     /\ UNCHANGED <<io_data, registered>>
    /\ is_connected' = FALSE
    /\ UNCHANGED <<icResult, result, nonblocking, ioVars, schedVars, tokens, subPc,
                   cancelVars, selVars, histVars>>

(***************************************************************************)
(* Collaborators of the task runtime that subscribe and done call.         *)
(***************************************************************************)

\* The waiting task is taken out of the slot and handed to the scheduler,
\* with the error (if any) that the wakeup leaves for co_io_result.
Wake(who, err) ==
    /\ co' = FALSE
    /\ runnable' = TRUE
    /\ para' = err
    /\ resumes' = resumes + 1
    /\ wokenBy' = who

NoWake == UNCHANGED <<co, runnable, para, resumes, wokenBy>>

\* io_data.schedule(): re-run the task waiting in the slot, if there is one.
IoSchedule(who) == IF co THEN Wake(who, para) ELSE NoWake

\* cancel.cancel(): take the back-reference out of the cancel slot and, through
\* it, resume the waiting task with a cancellation error.
CancelIo(who) ==
    IF cancel_io
    THEN /\ cancel_io' = FALSE
         /\ IF co THEN Wake(who, "Canceled") ELSE NoWake
    ELSE /\ cancel_io' = cancel_io
         /\ NoWake

(***************************************************************************)
(* UnixStreamConnect::is_connected                                         *)
(***************************************************************************)

\* match self.stream.connect(&self.path) of is_connected
IsConnectedOutcome(e) ==
    IF e = "OK" THEN "true"
    ELSE IF e = "EINPROGRESS" THEN "false"
    ELSE "error"

\* A call of is_connected(&mut self), any number of times before done(self)
\* takes the object: one connect is issued and its answer mapped; whatever it
\* returns, the object stays as it is but for the field is_connected.
IsConnected ==
    /\ taskPc = "created"
    /\ \E e \in ConnectAnswers :
          LET o == IsConnectedOutcome(e) IN
          /\ is_connected' = IF o = "true" THEN TRUE ELSE is_connected
          /\ icResult' = IF o = "error" THEN e ELSE o
          /\ icAnswer' = e
          /\ icOk' = (icOk \/ e = "OK")
    /\ UNCHANGED <<taskPc, newResult, result, resVars, ioVars, schedVars, tokens, subPc,
                   cancelVars, selVars, hist, suspends, resumes, subscribes, setInWindow,
                   cycleEvt, wokenBy, cancelBeforeSub, resets>>

(***************************************************************************)
(* UnixStreamConnect::done                                                 *)
(***************************************************************************)

\* Mutant: done without the early return for an object already connected.
DoneEntry_NoFastPath ==
    /\ taskPc = "created"
    /\ taskPc' = "top"
    /\ UNCHANGED <<newResult, icResult, result, is_connected, resVars, ioVars, schedVars,
                   tokens, subPc, cancelVars, selVars, histVars>>

\* Mutant of DoneEntry: the test of is_connected is inverted.
DoneEntry_Inverted ==
    /\ taskPc = "created"
    /\ IF ~is_connected
       THEN taskPc' = "convert" /\ result' = "Ok"
       ELSE taskPc' = "top" /\ result' = result
    /\ UNCHANGED <<newResult, icResult, is_connected, resVars, ioVars, schedVars, tokens,
                   subPc, cancelVars, selVars, histVars>>

\* if self.is_connected { return Ok(convert_to_stream(self)); }
DoneEntry ==
    /\ taskPc = "created"
    /\ IF is_connected
       THEN taskPc' = "convert" /\ result' = "Ok"
       ELSE taskPc' = "top" /\ result' = result
    /\ UNCHANGED <<newResult, icResult, is_connected, resVars, ioVars, schedVars, tokens,
                   subPc, cancelVars, selVars, histVars>>

\* Mutant: the loop without the co_io_result check at its top.
DoneTop_NoCheck ==
    /\ taskPc = "top"
    /\ taskPc' = "clear"
    /\ UNCHANGED <<newResult, icResult, result, is_connected, resVars, ioVars, schedVars,
                   tokens, subPc, cancelVars, selVars, histVars>>

\* Mutant of DoneTop: the readiness flag is cleared before the error is returned.
DoneTop_ClearsFirst ==
    /\ taskPc = "top"
    /\ IF para # "none"
       THEN taskPc' = "drop_fields" /\ result' = para /\ para' = "none" /\ io_flag' = FALSE
       ELSE taskPc' = "clear" /\ result' = result /\ para' = para /\ io_flag' = io_flag
    /\ UNCHANGED <<newResult, icResult, is_connected, resVars, co, timer, runnable, tokens,
                   subPc, cancelVars, selVars, histVars>>

\* co_io_result()?: the error left by the wakeup, if any, ends done.
DoneTop ==
    /\ taskPc = "top"
    /\ IF para # "none"
       THEN taskPc' = "drop_fields" /\ result' = para /\ para' = "none"
       ELSE taskPc' = "clear" /\ result' = result /\ para' = para
    /\ UNCHANGED <<newResult, icResult, is_connected, resVars, ioVars, runnable, tokens,
                   subPc, cancelVars, selVars, histVars>>

\* self.io_data.io_flag.store(false, Ordering::Relaxed)
DoneClear ==
    /\ taskPc = "clear"
    /\ io_flag' = FALSE
    /\ setInWindow' = FALSE
    /\ taskPc' = "connect"
    /\ UNCHANGED <<newResult, icResult, result, is_connected, resVars, co, timer,
                   schedVars, tokens, subPc, cancelVars, selVars, hist, suspends,
                   resumes, subscribes, cancelBeforeSub, cycleEvt, wokenBy,
                   icAnswer, icOk, resets>>

\* Mutant: the match without the EISCONN arm.
ConnectOutcome_NoEisconn(e) ==
    IF e = "OK" THEN "success"
    ELSE IF e = "EINPROGRESS" THEN "wait"
    ELSE IF e = "EALREADY" THEN "wait"
    ELSE "fatal"

\* Mutant: EISCONN handled like EINPROGRESS.
ConnectOutcome_EisconnWaits(e) ==
    IF e = "OK" THEN "success"
    ELSE IF e \in {"EINPROGRESS", "EALREADY", "EISCONN"} THEN "wait"
    ELSE "fatal"

\* Mutant: the match without the EALREADY arm.
ConnectOutcome_NoEalready(e) ==
    IF e = "OK" THEN "success"
    ELSE IF e = "EINPROGRESS" THEN "wait"
    ELSE IF e = "EISCONN" THEN "success"
    ELSE "fatal"

\* The arms of match self.stream.connect(&self.path) in the loop of done.
ConnectOutcome(e) ==
    IF e = "OK" THEN "success"
    ELSE IF e = "EINPROGRESS" THEN "wait"
    ELSE IF e = "EALREADY" THEN "wait"
    ELSE IF e = "EISCONN" THEN "success"
    ELSE "fatal"

\* The connect re-issued by the loop.
DoneConnect ==
    /\ taskPc = "connect"
    /\ Len(hist) < MaxConnects
    /\ \E e \in ConnectAnswers :
          LET o == ConnectOutcome(e) IN
          /\ hist' = Append(hist, e)
          /\ taskPc' = IF o = "success" THEN "convert"
                       ELSE IF o = "wait" THEN "swap"
                       ELSE "drop_fields"
          /\ result' = IF o = "success" THEN "Ok"
                       ELSE IF o = "wait" THEN result
                       ELSE e
    /\ UNCHANGED <<newResult, icResult, is_connected, resVars, ioVars, schedVars, tokens,
                   subPc, cancelVars, selVars, suspends, resumes, subscribes, cancelBeforeSub,
                   setInWindow, cycleEvt, wokenBy,
                   icAnswer, icOk, resets>>

\* Mutant: the flag is cleared again but its previous value is not looked at.
DoneSwap_AlwaysSuspend ==
    /\ taskPc = "swap"
    /\ io_flag' = FALSE
    /\ cycleEvt' = FALSE
    /\ taskPc' = "reset"
    /\ UNCHANGED <<newResult, icResult, result, is_connected, resVars, co, timer,
                   schedVars, tokens, subPc, cancelVars, selVars, hist, suspends,
                   resumes, subscribes, cancelBeforeSub, setInWindow, wokenBy,
                   icAnswer, icOk, resets>>

\* Mutant of DoneSwap: the outcome of the recheck is inverted.
DoneSwap_Inverted ==
    /\ taskPc = "swap"
    /\ io_flag' = FALSE
    /\ cycleEvt' = FALSE
    /\ taskPc' = IF io_flag THEN "reset" ELSE "top"
    /\ UNCHANGED <<newResult, icResult, result, is_connected, resVars, co, timer,
                   schedVars, tokens, subPc, cancelVars, selVars, hist, suspends,
                   resumes, subscribes, cancelBeforeSub, setInWindow, wokenBy,
                   icAnswer, icOk, resets>>

\* if self.io_data.io_flag.swap(false, Ordering::Relaxed) { continue; }
DoneSwap ==
    /\ taskPc = "swap"
    /\ io_flag' = FALSE
    /\ cycleEvt' = FALSE
    /\ taskPc' = IF io_flag THEN "top" ELSE "reset"
    /\ UNCHANGED <<newResult, icResult, result, is_connected, resVars, co, timer,
                   schedVars, tokens, subPc, cancelVars, selVars, hist, suspends,
                   resumes, subscribes, cancelBeforeSub, setInWindow, wokenBy,
                   icAnswer, icOk, resets>>

\* self.can_drop.reset(): the guard is renewed once the token of the previous
\* guard period has been released.
DoneReset ==
    /\ taskPc = "reset"
    /\ tokens = 0
    /\ taskPc' = "yield"
    /\ resets' = resets + 1
    /\ UNCHANGED <<newResult, icResult, result, is_connected, resVars, ioVars, schedVars,
                   tokens, subPc, cancelVars, selVars, hist, suspends, resumes, subscribes,
                   setInWindow, cycleEvt, wokenBy, cancelBeforeSub, icAnswer, icOk>>

\* yield_with(&self): the task is suspended and the worker thread it ran on
\* calls subscribe with its handle.
DoneYield ==
    /\ taskPc = "yield"
    /\ subPc = "idle"
    /\ taskPc' = "suspended"
    /\ subPc' = "delay_drop"
    /\ suspends' = suspends + 1
    /\ subscribes' = subscribes + 1
    /\ wokenBy' = "none"
    /\ cancelBeforeSub' = (cancelBeforeSub \/ (canceled /\ cancelPc = "done"))
    /\ UNCHANGED <<newResult, icResult, result, is_connected, resVars, ioVars, schedVars,
                   tokens, cancelVars, selVars, hist, resumes, setInWindow, cycleEvt,
                   icAnswer, icOk, resets>>

\* The scheduler runs the task again: yield_with returns and the loop goes
\* back to its top.
TaskResume ==
    /\ taskPc = "suspended"
    /\ runnable
    /\ runnable' = FALSE
    /\ taskPc' = "top"
    /\ UNCHANGED <<newResult, icResult, result, is_connected, resVars, ioVars, para, tokens,
                   subPc, cancelVars, selVars, histVars>>

\* convert_to_stream(self): the socket and the registration move into the stream.
ConvertToStream ==
    /\ taskPc = "convert"
    /\ sock' = "stream"
    /\ io_data' = "stream"
    /\ taskPc' = "drop_wait"
    /\ UNCHANGED <<newResult, icResult, result, is_connected, nonblocking, registered,
                   ioVars, schedVars, tokens, subPc, cancelVars, selVars, histVars>>

\* Mutant: the error return closes the socket but forgets the registration.
DropFields_Leak ==
    /\ taskPc = "drop_fields"
    /\ sock' = "closed"
    /\ taskPc' = "drop_wait"
    /\ UNCHANGED <<newResult, icResult, result, is_connected, nonblocking, io_data,
                   registered, ioVars, schedVars, tokens, subPc, cancelVars, selVars,
                   histVars>>

\* An error return drops self: the fields declared before can_drop (io_data,
\* stream, path) are dropped first, in declaration order.
DropFields ==
    /\ taskPc = "drop_fields"
    /\ io_data' = "released"
    /\ registered' = FALSE
    /\ sock' = "closed"
    /\ taskPc' = "drop_wait"
    /\ UNCHANGED <<newResult, icResult, result, is_connected, nonblocking, ioVars,
                   schedVars, tokens, subPc, cancelVars, selVars, histVars>>

\* Drop of can_drop: destruction waits until no delay-drop token is outstanding.
DropWait ==
    /\ taskPc = "drop_wait"
    /\ tokens = 0
    /\ taskPc' = "finished"
    /\ UNCHANGED <<newResult, icResult, result, is_connected, resVars, ioVars, schedVars,
                   tokens, subPc, cancelVars, selVars, histVars>>

(***************************************************************************)
(* EventSource::subscribe                                                  *)
(***************************************************************************)

\* let _g = self.can_drop.delay_drop(); let cancel = co_cancel_data(&co);
SubDelayDrop ==
    /\ subPc = "delay_drop"
    /\ tokens' = tokens + 1
    /\ subPc' = "add_timer"
    /\ UNCHANGED <<taskVars, resVars, ioVars, schedVars, cancelVars, selVars, histVars>>

\* get_scheduler().get_selector().add_io_timer(io_data, Some(Duration::from_secs(10)))
SubAddTimer ==
    /\ subPc = "add_timer"
    /\ timer' = IoTimeoutSecs
    /\ subPc' = "store_co"
    /\ UNCHANGED <<taskVars, resVars, io_flag, co, schedVars, tokens, cancelVars, selVars,
                   histVars>>

\* io_data.co.swap(co, Ordering::Release)
SubStoreCo ==
    /\ subPc = "store_co"
    /\ co' = TRUE
    /\ subPc' = "load_flag"
    /\ UNCHANGED <<taskVars, resVars, io_flag, timer, schedVars, tokens, cancelVars,
                   selVars, histVars>>

\* Mutant: subscribe reschedules the task whatever the readiness flag says.
SubLoadFlag_AlwaysSchedule ==
    /\ subPc = "load_flag"
    /\ subPc' = "schedule"
    /\ UNCHANGED <<taskVars, resVars, ioVars, schedVars, tokens, cancelVars, selVars,
                   histVars>>

\* Mutant: subscribe without the re-check of the readiness flag.
SubLoadFlag_NeverSchedule ==
    /\ subPc = "load_flag"
    /\ subPc' = "set_io"
    /\ UNCHANGED <<taskVars, resVars, ioVars, schedVars, tokens, cancelVars, selVars,
                   histVars>>

\* if io_data.io_flag.load(Ordering::Relaxed)
SubLoadFlag ==
    /\ subPc = "load_flag"
    /\ subPc' = IF io_flag THEN "schedule" ELSE "set_io"
    /\ UNCHANGED <<taskVars, resVars, ioVars, schedVars, tokens, cancelVars, selVars,
                   histVars>>

\* Mutant of SubSchedule: the task is rescheduled but its handle stays in the slot.
SubSchedule_KeepsHandle ==
    /\ subPc = "schedule"
    /\ IF co THEN /\ co' = co
                  /\ runnable' = TRUE
                  /\ para' = para
                  /\ resumes' = resumes + 1
                  /\ wokenBy' = "subscribe"
             ELSE NoWake
    /\ subPc' = "ret"
    /\ UNCHANGED <<taskVars, resVars, io_flag, timer, tokens, cancelVars, selVars, hist,
                   suspends, subscribes, cancelBeforeSub, setInWindow, cycleEvt,
                   icAnswer, icOk, resets>>

\* return io_data.schedule()
SubSchedule ==
    /\ subPc = "schedule"
    /\ IoSchedule("subscribe")
    /\ subPc' = "ret"
    /\ UNCHANGED <<taskVars, resVars, io_flag, timer, tokens, cancelVars, selVars, hist,
                   suspends, subscribes, cancelBeforeSub, setInWindow, cycleEvt,
                   icAnswer, icOk, resets>>

\* cancel.set_io(self.io_data.deref().clone())
SubSetIo ==
    /\ subPc = "set_io"
    /\ cancel_io' = TRUE
    /\ subPc' = "is_canceled"
    /\ UNCHANGED <<taskVars, resVars, ioVars, schedVars, tokens, canceled, cancelPc,
                   selVars, histVars>>

\* if cancel.is_canceled()
SubIsCanceled ==
    /\ subPc = "is_canceled"
    /\ subPc' = IF canceled THEN "cancel" ELSE "ret"
    /\ UNCHANGED <<taskVars, resVars, ioVars, schedVars, tokens, cancelVars, selVars,
                   histVars>>

\* unsafe { cancel.cancel() }
SubCancel ==
    /\ subPc = "cancel"
    /\ CancelIo("subscribe_cancel")
    /\ subPc' = "ret"
    /\ UNCHANGED <<taskVars, resVars, io_flag, timer, tokens, canceled, cancelPc, selVars,
                   hist, suspends, subscribes, cancelBeforeSub, setInWindow, cycleEvt,
                   icAnswer, icOk, resets>>

\* subscribe returns: the token _g is released.
SubReturn ==
    /\ subPc = "ret"
    /\ tokens' = tokens - 1
    /\ subPc' = "idle"
    /\ UNCHANGED <<taskVars, resVars, ioVars, schedVars, cancelVars, selVars, histVars>>

(***************************************************************************)
(* The selector, the io timer and the canceller.                           *)
(***************************************************************************)

\* The selector sees the descriptor ready and sets the readiness flag ...
SelFlag ==
    /\ selPc = "idle"
    /\ registered
    /\ nEvents < MaxEvents
    /\ io_flag' = TRUE
    /\ cycleEvt' = TRUE
    /\ setInWindow' = IF taskPc \in {"connect", "swap"} THEN TRUE ELSE setInWindow
    /\ nEvents' = nEvents + 1
    /\ selPc' = "schedule"
    /\ UNCHANGED <<taskVars, resVars, co, timer, schedVars, tokens, subPc, cancelVars,
                   hist, suspends, resumes, subscribes, cancelBeforeSub, wokenBy,
                   icAnswer, icOk, resets>>

\* ... and then reschedules the waiting task.
SelSchedule ==
    /\ selPc = "schedule"
    /\ IoSchedule("event")
    /\ selPc' = "idle"
    /\ UNCHANGED <<taskVars, resVars, io_flag, timer, tokens, subPc, cancelVars, nEvents,
                   hist, suspends, subscribes, cancelBeforeSub, setInWindow, cycleEvt,
                   icAnswer, icOk, resets>>

\* The armed timer expires, IoTimeoutSecs seconds after add_io_timer: the
\* waiting task, if any, is resumed with a timeout error.
TimerFire ==
    /\ timer = IoTimeoutSecs
    /\ timer' = NoTimer
    /\ IF co THEN Wake("timer", "TimedOut") ELSE NoWake
    /\ UNCHANGED <<taskVars, resVars, io_flag, tokens, subPc, cancelVars, selVars, hist,
                   suspends, subscribes, cancelBeforeSub, setInWindow, cycleEvt,
                   icAnswer, icOk, resets>>

\* Somebody asks for the task to be canceled: the cancel flag is set ...
CancelRequest ==
    /\ cancelPc = "idle"
    /\ newResult = "Ok"
    /\ taskPc # "finished"
    /\ canceled' = TRUE
    /\ cancelPc' = "deliver"
    /\ UNCHANGED <<taskVars, resVars, ioVars, schedVars, tokens, subPc, cancel_io, selVars,
                   histVars>>

\* ... and the cancellation is delivered through the back-reference.
CancelDeliver ==
    /\ cancelPc = "deliver"
    /\ CancelIo("cancel")
    /\ cancelPc' = "done"
    /\ UNCHANGED <<taskVars, resVars, io_flag, timer, tokens, subPc, canceled, selVars,
                   hist, suspends, subscribes, cancelBeforeSub, setInWindow, cycleEvt,
                   icAnswer, icOk, resets>>

Next ==
    \/ NewAddr \/ NewSocket \/ NewNonblocking \/ NewRegister
    \/ IsConnected \/ DoneEntry \/ DoneTop \/ DoneClear \/ DoneConnect \/ DoneSwap
    \/ DoneReset \/ DoneYield \/ TaskResume \/ ConvertToStream \/ DropFields \/ DropWait
    \/ SubDelayDrop \/ SubAddTimer \/ SubStoreCo \/ SubLoadFlag \/ SubSchedule
    \/ SubSetIo \/ SubIsCanceled \/ SubCancel \/ SubReturn
    \/ SelFlag \/ SelSchedule \/ TimerFire
    \/ CancelRequest \/ CancelDeliver

Spec == Init /\ [][Next]_vars

(***************************************************************************)
(* The same program under the scheduling the runtime provides: a running   *)
(* task or subscribe call takes its next step, a task handed to the        *)
(* scheduler is run, the selector and the canceller finish a delivery they *)
(* have begun, and an armed timer expires.  Readiness events and cancel    *)
(* requests come from outside and are not obliged to happen.               *)
(***************************************************************************)

TaskStep ==
    \/ NewAddr \/ NewSocket \/ NewNonblocking \/ NewRegister
    \/ DoneEntry \/ DoneTop \/ DoneClear \/ DoneConnect \/ DoneSwap
    \/ DoneReset \/ DoneYield \/ ConvertToStream \/ DropFields \/ DropWait

SubStep ==
    \/ SubDelayDrop \/ SubAddTimer \/ SubStoreCo \/ SubLoadFlag \/ SubSchedule
    \/ SubSetIo \/ SubIsCanceled \/ SubCancel \/ SubReturn

Fairness ==
    /\ WF_vars(TaskStep)
    /\ WF_vars(TaskResume)
    /\ WF_vars(SubStep)
    /\ WF_vars(SelSchedule)
    /\ WF_vars(TimerFire)
    /\ WF_vars(CancelDeliver)

LiveSpec == Init /\ [][Next]_vars /\ Fairness

TypeOK ==
    /\ taskPc \in {"new_addr", "new_socket", "new_nonblock", "new_register", "new_failed",
                   "created", "top", "clear", "connect", "swap", "reset", "yield",
                   "suspended", "convert", "drop_fields", "drop_wait", "finished"}
    /\ subPc \in {"idle", "delay_drop", "add_timer", "store_co", "load_flag", "schedule",
                  "set_io", "is_canceled", "cancel", "ret"}
    /\ tokens \in 0..1
    /\ timer \in {NoTimer, IoTimeoutSecs}
    /\ para \in {"none", "TimedOut", "Canceled"}
    /\ result \in {"none", "Ok", "TimedOut", "Canceled"} \cup Errnos
    /\ Len(hist) <= MaxConnects
    /\ nEvents \in 0..MaxEvents

(***************************************************************************)
(* Properties.                                                             *)
(***************************************************************************)

InLoopBody == taskPc \in {"clear", "connect", "swap", "reset", "yield"}
Leaving == taskPc \in {"convert", "drop_fields", "drop_wait", "finished"}
FatalErrnos == Errnos \ {"EINPROGRESS", "EALREADY", "EISCONN"}

\* C1: when io_flag was set to true after the clearing store of an iteration
\* and before its recheck swap, the swap sends the loop back to its top with
\* no error pending (so connect is re-issued) and the task is not suspended
\* and subscribe is not entered in that iteration.
C1_RecheckRetries ==
    [][(taskPc = "swap" /\ setInWindow /\ taskPc' # taskPc)
          => /\ taskPc' = "top"
             /\ para' = "none"
             /\ suspends' = suspends
             /\ subscribes' = subscribes]_vars

\* The loop is back at its top after a swap that saw the flag set in the window.
C1_Witness ==
    /\ taskPc = "top"
    /\ setInWindow
    /\ suspends = 0
    /\ Len(hist) = 1

\* C2: the task is handed to the scheduler at most once per suspend cycle
\* (only while it is suspended and not yet runnable, and never more often than
\* it was suspended), and every resume has a cause: the selector delivering a
\* readiness event, a readiness event having set io_flag since the recheck swap
\* (resume by subscribe), the expiry of the timer, or a requested cancellation.
C2_ResumeOncePerCycle ==
    [][resumes' # resumes
          => /\ resumes' = resumes + 1
             /\ resumes' <= suspends
             /\ taskPc = "suspended"
             /\ ~runnable
             /\ \/ wokenBy' = "event" /\ selPc = "schedule"
                \/ wokenBy' = "subscribe" /\ cycleEvt
                \/ wokenBy' = "timer" /\ timer = IoTimeoutSecs
                \/ wokenBy' \in {"cancel", "subscribe_cancel"} /\ canceled]_vars

\* The second suspend cycle ended by subscribe finding the readiness flag set.
C2_Witness ==
    /\ wokenBy = "subscribe"
    /\ resumes = 2
    /\ suspends = 2

\* C3: once the cancellation had been requested before the suspension, the
\* task is not left parked after subscribe, and done does not return a stream
\* as if no cancellation had been requested.
C3_CancelNeverLost ==
    cancelBeforeSub
       => /\ ~(taskPc = "suspended" /\ co /\ ~runnable /\ subPc = "idle")
          /\ (taskPc \in {"convert", "drop_wait", "finished"} => result # "Ok")

\* C4: while a delay-drop token is outstanding the destruction of the connect
\* object has not completed, and the registration record has not been freed
\* (nor the socket closed) under subscribe, which still uses them.
C4_NoTeardownWhileTokenHeld ==
    /\ (taskPc = "finished" => (tokens = 0 /\ subPc = "idle"))
    /\ (tokens > 0 => (io_data # "released" /\ sock # "closed"))

\* C5: once a call of is_connected got a synchronous success and marked the
\* object connected (whatever later calls returned), done never enters the
\* loop: no suspension, no re-issued connect, no subscribe, and it returns
\* success.
C5_SyncConnectNoSuspend ==
    (icOk \/ is_connected)
       => /\ taskPc \in {"created", "convert", "drop_wait", "finished"}
          /\ suspends = 0
          /\ subscribes = 0
          /\ hist = <<>>
          /\ (taskPc # "created" => result = "Ok")

\* done has returned a stream for an object connected synchronously.
C5_Witness ==
    /\ icResult = "true"
    /\ is_connected
    /\ taskPc = "finished"
    /\ result = "Ok"
    /\ sock = "stream"

\* C6: when the last re-issued connect answered EISCONN, done returns success,
\* whatever the earlier answers were.
C6_EisconnIsSuccess ==
    (hist # <<>> /\ hist[Len(hist)] = "EISCONN")
       => (result = "Ok" /\ taskPc \in {"convert", "drop_wait", "finished"})

\* Success by EISCONN after an EINPROGRESS and an EALREADY iteration.
C6_Witness ==
    /\ hist = <<"EINPROGRESS", "EALREADY", "EISCONN">>
    /\ taskPc = "finished"
    /\ result = "Ok"

\* C7: in the run EINPROGRESS, readiness while parked, EISCONN, done returns
\* success after exactly one suspension and one resume.
C7_OneCycleThenSuccess ==
    (hist = <<"EINPROGRESS", "EISCONN">> /\ wokenBy \in {"event", "subscribe"})
       => /\ result = "Ok"
          /\ suspends = 1
          /\ resumes = 1
          /\ taskPc \in {"convert", "drop_wait", "finished"}

\* That run, ended, with the selector having resumed the parked task.
C7_Witness ==
    /\ hist = <<"EINPROGRESS", "EISCONN">>
    /\ wokenBy = "event"
    /\ taskPc = "finished"
    /\ result = "Ok"
    /\ suspends = 1

\* C8: when the timer expires with the task still parked, the task is resumed
\* with a timeout error and done returns that timeout error.
C8_TimeoutError ==
    wokenBy = "timer"
       => /\ taskPc \in {"suspended", "top", "drop_fields", "drop_wait", "finished"}
          /\ (taskPc = "suspended" => runnable)
          /\ (taskPc \in {"suspended", "top"} => para = "TimedOut")
          /\ (taskPc \in {"drop_fields", "drop_wait", "finished"} => result = "TimedOut")

\* done has returned the timeout error and no readiness event ever arrived.
C8_Witness ==
    /\ wokenBy = "timer"
    /\ nEvents = 0
    /\ taskPc = "finished"
    /\ result = "TimedOut"

\* C9: when the canceller finds the task parked, the task is resumed with a
\* cancellation error, done returns it, and the object is dropped: the socket
\* is closed and the registration released, never moved into a stream.
C9_CancelWhileParked ==
    wokenBy = "cancel"
       => /\ taskPc \in {"suspended", "top", "drop_fields", "drop_wait", "finished"}
          /\ (taskPc = "suspended" => runnable)
          /\ (taskPc \in {"suspended", "top"} => para = "Canceled")
          /\ (taskPc \in {"drop_fields", "drop_wait", "finished"} => result = "Canceled")
          /\ (taskPc \in {"drop_wait", "finished"}
                 => sock = "closed" /\ io_data = "released" /\ ~registered)

\* done has returned the cancellation error and the object is gone.
C9_Witness ==
    /\ wokenBy = "cancel"
    /\ taskPc = "finished"
    /\ result = "Canceled"
    /\ sock = "closed"
    /\ io_data = "released"

\* C10: each re-issued connect is mapped by its answer: EINPROGRESS and
\* EALREADY go on to the recheck swap, EISCONN ends the loop with success, any
\* other errno ends the loop with that errno; and after such an errno connect
\* is not issued again.
C10_ConnectMapping ==
    [][/\ (taskPc = "connect" /\ taskPc' # "connect")
             => LET e == hist'[Len(hist')] IN
                /\ Len(hist') = Len(hist) + 1
                /\ (e \in {"EINPROGRESS", "EALREADY"} => taskPc' = "swap" /\ result' = result)
                /\ (e = "EISCONN" => taskPc' = "convert" /\ result' = "Ok")
                /\ (e \in FatalErrnos => taskPc' = "drop_fields" /\ result' = e)
       /\ (result \in FatalErrnos => hist' = hist /\ result' = result /\ Leaving)]_vars

\* A fatal errno on the second re-issued connect has ended done.
C10_Witness ==
    /\ hist = <<"EALREADY", "ECONNREFUSED">>
    /\ result = "ECONNREFUSED"
    /\ taskPc = "finished"

\* A call of is_connected has returned (a call that repeats the previous
\* answer on an unchanged object leaves no trace and is not counted).
IsConnectedReturned == icAnswer' # icAnswer \/ icResult' # icResult \/ icOk' # icOk

\* C11: the call of is_connected issues one connect and maps its
\* answer three ways: success marks the object connected and returns true;
\* EINPROGRESS returns false and leaves the object not connected; any other
\* errno is returned as the error and leaves the object not connected.
C11_LeavesNotConnected ==
    [][IsConnectedReturned
          => /\ icAnswer' \in ConnectAnswers
             /\ (icAnswer' = "OK" => icResult' = "true" /\ is_connected')
             /\ (icAnswer' = "EINPROGRESS" => icResult' = "false" /\ ~is_connected')
             /\ (icAnswer' \in Errnos \ {"EINPROGRESS"}
                    => icResult' = icAnswer' /\ ~is_connected')]_vars

\* subscribe has passed its re-check of the readiness flag (line 105).
SubPastRecheck == subPc \in {"idle", "set_io", "is_canceled", "cancel", "ret"}

\* C12: subscribe, finding the readiness flag set after it stored the handle,
\* goes on to hand the task back at once; and when a readiness event set the
\* flag after the recheck swap, the task is not left in the slot with
\* subscribe past its re-check and the selector done with the event: either
\* the selector or subscribe has taken the handle and rescheduled the task.
C12_NoLostReadiness ==
    /\ [][(subPc = "load_flag" /\ subPc' # subPc /\ io_flag) => subPc' = "schedule"]_vars
    /\ [][(subPc = "schedule" /\ subPc' # subPc) => (~co' /\ (co => runnable'))]_vars
    /\ [](~(/\ taskPc = "suspended"
             /\ co
             /\ cycleEvt
             /\ selPc = "idle"
             /\ SubPastRecheck))

\* The selector was done with the event before the handle was stored, and
\* subscribe itself has rescheduled the task.
C12_Witness ==
    /\ wokenBy = "subscribe"
    /\ resumes = 1
    /\ runnable
    /\ selPc = "idle"
    /\ subPc = "ret"


\* C13: under LiveSpec, a suspended task is always eventually resumed, at the
\* loop top, by a readiness notification, the timeout or a cancellation; and
\* each suspension is answered by at most one resumption.
C13_SuspendEnds ==
    /\ (taskPc = "suspended")
          ~> (taskPc = "top" /\ resumes = suspends
                /\ wokenBy \in {"event", "subscribe", "timer", "cancel", "subscribe_cancel"})
    /\ [](resumes <= suspends /\ suspends <= resumes + 1)

\* C14: the socket is never registered with the selector while in blocking
\* mode, a connect object exists only over a non-blocking registered socket,
\* and when a step of new has failed new has returned an error, no connect
\* object exists (no registration, no open socket) and nothing runs on it.
C14_NonblockingBeforeRegister ==
    /\ (registered => nonblocking)
    /\ (newResult = "Ok" => nonblocking /\ taskPc \notin {"new_addr", "new_socket",
                                                          "new_nonblock", "new_register",
                                                          "new_failed"})
    /\ (taskPc = "new_register" => nonblocking /\ ~registered)
    /\ (taskPc = "new_failed" <=> newResult = "Err")
    /\ (taskPc = "new_failed"
           => /\ io_data = "none"
              /\ ~registered
              /\ sock \in {"none", "closed"}
              /\ icResult = "none"
              /\ result = "none"
              /\ hist = <<>>
              /\ subscribes = 0)

\* The registration failed after the mode switch: new has returned an error
\* and the non-blocking socket is closed.
C14_Witness ==
    /\ taskPc = "new_failed"
    /\ newResult = "Err"
    /\ nonblocking
    /\ sock = "closed"


\* C15: every suspension of the task (and every entry into subscribe) is taken
\* at the yield of the completion loop, after the connect re-issued in that
\* iteration answered EINPROGRESS or EALREADY and the recheck swap found the
\* readiness flag false; while new runs, after it failed, and across
\* is_connected, the task has never been suspended.
C15_SuspendOnlyInLoop ==
    /\ [][(\/ suspends' # suspends
            \/ subscribes' # subscribes
            \/ (taskPc' = "suspended" /\ taskPc # "suspended"))
            => /\ taskPc = "yield"
               /\ taskPc' = "suspended"
               /\ suspends' = suspends + 1
               /\ hist # <<>>
               /\ hist[Len(hist)] \in {"EINPROGRESS", "EALREADY"}
               /\ ~setInWindow]_vars
    /\ [](taskPc \in {"new_addr", "new_socket", "new_nonblock", "new_register",
                       "new_failed", "created"}
             => suspends = 0 /\ subscribes = 0)
    /\ [][icResult' # icResult
            => /\ suspends' = suspends
               /\ subscribes' = subscribes
               /\ taskPc = "created"
               /\ taskPc' = "created"]_vars

\* The task is suspended after the re-issued connect answered EALREADY and the
\* recheck found no readiness in the window.
C15_Witness ==
    /\ taskPc = "suspended"
    /\ suspends = 1
    /\ hist = <<"EALREADY">>
    /\ ~setInWindow


\* C16: the store of line 102 always finds the waiting-task slot empty and
\* leaves the stored handle in it; and a handle in the slot is that of the one
\* task, which is then suspended and not handed to the scheduler (so the slot
\* never holds a second or a stale handle).
C16_SlotEmptyWhenStored ==
    /\ [][(subPc = "store_co" /\ subPc' # subPc) => (~co /\ co')]_vars
    /\ [](subPc = "store_co" => ~co)
    /\ [](co => taskPc = "suspended" /\ ~runnable /\ resumes + 1 = suspends)

\* subscribe has stored the handle for the second suspension of the task.
C16_Witness ==
    /\ subPc = "load_flag"
    /\ co
    /\ subscribes = 2


\* subscribe holds the delay-drop token _g (lines 96 to 115).
SubHoldsToken == subPc \in {"add_timer", "store_co", "load_flag", "schedule", "set_io",
                            "is_canceled", "cancel", "ret"}

\* C17: each suspension is preceded by its own reset of the guard; subscribe
\* acquires a token before the handle becomes visible in the slot and holds
\* it until it returns; and while the token is held the connect object is not
\* destroyed: its registration is not released, its socket is not closed and
\* its destruction has not completed.
C17_GuardCoversSuspension ==
    /\ [][suspends' # suspends => resets = suspends + 1]_vars
    /\ [][(~co /\ co') => tokens = 1]_vars
    /\ [](SubHoldsToken
            => /\ tokens = 1
               /\ io_data # "released"
               /\ sock # "closed"
               /\ taskPc # "finished")

\* C18: the step the task takes at the top of the loop returns the error left
\* by the previous wakeup, if there is one, leaving the readiness flag, the
\* connect history and the suspension count as they were, and goes on to the
\* clearing store only when there is none; the loop body is entered only by
\* that step; and once done has returned such an error, connect is not issued,
\* the task is not suspended and the task does not clear the flag any more.
C18_ErrorCheckedAtTop ==
    /\ [][(taskPc = "top" /\ taskPc' # taskPc)
            => IF para # "none"
               THEN /\ taskPc' = "drop_fields"
                    /\ result' = para
                    /\ io_flag' = io_flag
                    /\ hist' = hist
                    /\ suspends' = suspends
                    /\ subscribes' = subscribes
               ELSE /\ taskPc' = "clear"
                    /\ result' = result]_vars
    /\ [][(taskPc' = "clear" /\ taskPc # "clear") => (taskPc = "top" /\ para = "none")]_vars
    /\ [][(result \in {"TimedOut", "Canceled"})
            => /\ hist' = hist
               /\ suspends' = suspends
               /\ subscribes' = subscribes
               /\ (io_flag => io_flag')
               /\ taskPc' \in {"drop_fields", "drop_wait", "finished"}]_vars

\* done has returned the cancellation error with the readiness flag still set.
C18_Witness ==
    /\ result = "Canceled"
    /\ io_flag
    /\ taskPc = "finished"


\* The OS has reported the connection established on this object.
Established ==
    \/ (icOk /\ is_connected /\ hist = <<>>)
    \/ (hist # <<>> /\ hist[Len(hist)] \in {"OK", "EISCONN"})

\* C19: done has returned success, or a stream exists, only if is_connected
\* got a synchronous success or the last connect re-issued in the loop
\* answered success or EISCONN; the step that decides success is the entry
\* test or the match on a connect answer, and a step of the selector, the
\* timer, the canceller or subscribe never does.
C19_SuccessOnlyIfEstablished ==
    /\ []((result = "Ok" \/ sock = "stream") => (result = "Ok" /\ Established))
    /\ [][(result' = "Ok" /\ result # "Ok")
            => /\ taskPc \in {"created", "connect"}
               /\ taskPc' = "convert"
               /\ subPc' = subPc
               /\ selPc' = selPc
               /\ cancelPc' = cancelPc
               /\ timer' = timer]_vars

\* done has returned the stream after the first re-issued connect succeeded.
C19_Witness ==
    /\ result = "Ok"
    /\ hist = <<"OK">>
    /\ sock = "stream"
    /\ taskPc = "finished"


\* done is inside its completion loop, running or parked.
InLoop == taskPc = "top" \/ taskPc = "suspended" \/ InLoopBody

\* The OS has answered "in progress" to every connect so far and the next
\* answer is beyond the connects explored.
NoFinalAnswerYet ==
    /\ taskPc = "connect"
    /\ Len(hist) = MaxConnects
    /\ \A i \in 1..Len(hist) : hist[i] \in {"EINPROGRESS", "EALREADY"}

\* C20: under LiveSpec, done inside its completion loop always eventually has
\* returned (success, or an error: a fatal connect answer, the timeout or a
\* cancellation) and the destruction of the connect object has completed,
\* unless the OS has not given a final answer to any connect explored.
C20_DoneReturns ==
    InLoop ~> ((taskPc = "finished" /\ result # "none") \/ NoFinalAnswerYet)

====
